---- MODULE Spec2Model ----
(***************************************************************************)
(* Model of the /ws/tts relay session of src/app/main.py (ws_tts).         *)
(*                                                                         *)
(* One session is one run of the coroutine ws_tts.  Every `await` of the   *)
(* handler is one step of the model; the synchronous code between two      *)
(* awaits belongs to the step of the await that precedes it.  The client,  *)
(* the TTS provider and the ASGI server are the environment.               *)
(***************************************************************************)
EXTENDS Integers, Sequences, FiniteSets, TLC

\* ------------------------------------------------------------------ bounds
\* settings.MAX_TEXT_CHARS, scaled down (the configured limit).
MAX_TEXT_CHARS == 1
\* Number of messages the provider sends on one upstream connection.
MaxUpMsgs == 2

\* The core of a raw text is at most one character longer than the limit.
MaxCoreLen == MAX_TEXT_CHARS + 1

\* --------------------------------------------------------------- constants
\* WebSocket close codes used by the handler.
CLOSE_UNSUPPORTED == 1003
CLOSE_TOO_BIG == 1009
CLOSE_INTERNAL == 1011
\* Code of the closing handshake the server performs when the handler
\* returns without having closed the connection itself (ws_tts calls
\* ws.close() on its error paths only).
CLOSE_NORMAL == 1000
\* closeCode while the inbound connection has not been closed by the server.
NOT_CLOSED == 0

DEFAULT_VOICE_ID == "default_voice"
DEFAULT_MODEL_ID == "default_model"

\* ------------------------------------------------------------------- texts
\* Texts are sequences of characters: "a" and the blank.
RECURSIVE Rep(_, _)
Rep(c, n) == IF n = 0 THEN <<>> ELSE <<c>> \o Rep(c, n - 1)

\* The raw texts a client sends: every run of "a" up to MaxCoreLen, the
\* blank text, and "a" and the longest run with a blank on each side.
RawTexts ==
  {Rep("a", k) : k \in 0..MaxCoreLen}
  \cup {Rep(" ", 2), <<" ">> \o Rep("a", 1) \o <<" ">>,
        <<" ">> \o Rep("a", MaxCoreLen) \o <<" ">>}

RECURSIVE LStrip(_)
LStrip(s) == IF s # <<>> /\ Head(s) = " " THEN LStrip(Tail(s)) ELSE s

RECURSIVE RStrip(_)
RStrip(s) ==
  IF s # <<>> /\ s[Len(s)] = " " THEN RStrip(SubSeq(s, 1, Len(s) - 1)) ELSE s

\* Mutant: the text is used untrimmed.
StripNone(s) == s

\* str.strip(): leading and trailing whitespace removed.
Strip(s) == RStrip(LStrip(s))

\* ---------------------------------------------------------------- requests
\* The first client message.  json: "invalid" (json.loads raises), "nonobj"
\* (a JSON value that is no object) or "obj".  t is the shape of the "text"
\* member: "str", "absent" (missing or null), "falsy" (0, false, [], {}),
\* "truthy" (any other non-string).  voice_id / model_id: "" stands for a
\* missing, null or empty member.
Request(j, t, s, v, m) ==
  [json |-> j, t |-> t, s |-> s, voice_id |-> v, model_id |-> m]

VoiceIds == {"", "v1"}
ModelIds == {"", "m1"}

Requests ==
  {Request("invalid", "absent", <<>>, "", ""), Request("nonobj", "absent", <<>>, "", "")}
  \cup {Request("obj", "str", s, v, m) : s \in RawTexts, v \in VoiceIds, m \in ModelIds}
  \cup {Request("obj", t, <<>>, v, m) :
          t \in {"absent", "falsy", "truthy"}, v \in VoiceIds, m \in ModelIds}

NoRequest == Request("none", "absent", <<>>, "", "")

\* (data.get("text") or ""): the value .strip() is called on; "truthy"
\* non-strings have no strip().
TextOrEmpty(r) == IF r.t = "str" THEN r.s ELSE <<>>

\* Mutant: the voice given in the request is ignored.
ResolveVoiceDefaultOnly(r) == DEFAULT_VOICE_ID

\* data.get("voice_id") or settings.DEFAULT_VOICE_ID
ResolveVoice(r) == IF r.voice_id = "" THEN DEFAULT_VOICE_ID ELSE r.voice_id
\* data.get("model_id") or settings.DEFAULT_MODEL_ID
ResolveModel(r) == IF r.model_id = "" THEN DEFAULT_MODEL_ID ELSE r.model_id

\* Mutant: the limit is compared one too high.
TooLongOffByOne(t) == Len(t) > MAX_TEXT_CHARS + 1

\* len(text) > settings.MAX_TEXT_CHARS
TooLong(t) == Len(t) > MAX_TEXT_CHARS

\* Where the handler goes after the first message has been read: the
\* synchronous code of lines 59-83 up to its next await.
Validate(r) ==
  IF r.json = "invalid" THEN "err_json_send"
  ELSE IF r.json = "nonobj" \/ r.t = "truthy" THEN "raise"
  ELSE IF Strip(TextOrEmpty(r)) = <<>> THEN "err_empty_send"
  ELSE IF TooLong(Strip(TextOrEmpty(r))) THEN "err_long_send"
  ELSE "connecting_send"

\* ------------------------------------------------------ frames to the client
Frame(ty, stage, voice, msg, d) ==
  [type |-> ty, stage |-> stage, voice_id |-> voice, message |-> msg, data |-> d]

Status(stage) == Frame("status", stage, "", "", 0)
Connecting(voice) == Frame("status", "connecting-elevenlabs", voice, "", 0)
Error(msg) == Frame("error", "", "", msg, 0)
\* A binary frame; data identifies the upstream message its bytes came from.
Bytes(d) == Frame("bytes", "", "", "", d)

\* ------------------------------------------------------- upstream messages
\* kind: "obj" (a JSON object), "text" (text json.loads rejects), "bytes"
\* (binary data json.loads rejects), "nonobj" (JSON, but no object).
\* event: "" when missing.  has_error: the "error" member is present; error
\* and message are its and the "message" member's values, "" when falsy or
\* missing.  audio: "absent" (missing, null, "" or no string), "ok" (valid
\* base64 of some bytes), "empty" (decodes to no bytes), "bad" (b64decode
\* raises).  isFinal: the member is true.  seq is the message's position in
\* the provider's output (0 until it is sent); it stands for the payload.
UpMsg(k, ev, he, er, ms, au, fin) ==
  [kind |-> k, event |-> ev, has_error |-> he, error |-> er, message |-> ms,
   audio |-> au, isFinal |-> fin, seq |-> 0]

UpMsgs ==
  { UpMsg("obj", "", FALSE, "", "", "ok", FALSE),
    UpMsg("obj", "", FALSE, "", "", "ok", TRUE),
    UpMsg("obj", "", FALSE, "", "", "absent", TRUE),
    UpMsg("obj", "finalOutput", FALSE, "", "", "absent", FALSE),
    UpMsg("obj", "error", FALSE, "", "m", "absent", FALSE),
    UpMsg("obj", "", TRUE, "e", "", "ok", FALSE),
    UpMsg("obj", "", TRUE, "", "", "absent", TRUE),
    UpMsg("obj", "", FALSE, "", "", "absent", FALSE),
    UpMsg("obj", "", FALSE, "", "", "bad", FALSE),
    UpMsg("obj", "", FALSE, "", "", "bad", TRUE),
    UpMsg("obj", "", FALSE, "", "", "empty", FALSE),
    UpMsg("text", "", FALSE, "", "", "absent", FALSE),
    UpMsg("bytes", "", FALSE, "", "", "absent", FALSE),
    UpMsg("nonobj", "", FALSE, "", "", "absent", FALSE) }

NoMsg == UpMsg("none", "", FALSE, "", "", "absent", FALSE)

\* Mutant: only the event tag marks a provider error, not the error member.
IsProviderErrorEventOnly(m) == m.event = "error"

\* payload.get("event") == "error" or "error" in payload
IsProviderError(m) == m.event = "error" \/ m.has_error

\* payload.get("message") or payload.get("error") or <generic text>
ErrMsg(m) ==
  IF m.message # "" THEN m.message
  ELSE IF m.error # "" THEN m.error
  ELSE "Okant fel fran TTS-leverantoren"

\* payload.get("isFinal") is True or payload.get("event") == "finalOutput"
IsFinalSignal(m) == m.isFinal \/ m.event = "finalOutput"

\* base64.b64decode(audio_b64) of message m: ok is FALSE when it raises,
\* bytes is 0 for b"" and m.seq for the bytes the message encodes.
B64Decode(m) ==
  IF m.audio = "ok" THEN [ok |-> TRUE, bytes |-> m.seq]
  ELSE IF m.audio = "empty" THEN [ok |-> TRUE, bytes |-> 0]
  ELSE [ok |-> FALSE, bytes |-> 0]

\* Mutant: a message with the final signal has its audio dropped.
HasAudioExclusive(m) ==
  m.audio # "absent" /\ B64Decode(m).ok /\ B64Decode(m).bytes # 0
  /\ ~IsFinalSignal(m)

\* isinstance(audio_b64, str) and audio_b64, the decode succeeds, and b is
\* not empty: a binary frame is to be sent for the message.
HasAudio(m) ==
  m.audio # "absent" /\ B64Decode(m).ok /\ B64Decode(m).bytes # 0


\* ------------------------------------------------------------------- state
VARIABLES
  pc,          \* the handler's position: the await it is about to perform
  data,        \* the first client message (raw / data), NoRequest before
  text,        \* text: the trimmed request text
  voice_id,    \* voice_id as resolved
  model_id,    \* model_id as resolved
  exc,         \* the exception being propagated or handled, "none" if none
  frames,      \* frames sent to the client, in order
  closeCode,   \* code of the close frame sent to the client, NOT_CLOSED if none
  clientGone,  \* the client has disconnected
  upState,     \* upstream connection `eleven`: "none", "open", "closed"
  upOpens,     \* number of upstream connections opened
  upTarget,    \* <<voice, model>> of the URL the upstream connection went to
  upSent,      \* messages sent upstream, in order
  upQueue,     \* upstream messages received and not yet read by the loop
  upPeer,      \* the provider's end: "live", "closedOK", "closedErr"
  server_msg,  \* the upstream message of the current loop iteration
  nread,       \* number of upstream messages the loop has read
  upCloses,    \* number of times closing the upstream connection was attempted
  upCloseFailed \* the upstream closing handshake did not complete

vars ==
  <<pc, data, text, voice_id, model_id, exc, frames, closeCode, clientGone,
    upState, upOpens, upTarget, upSent, upQueue, upPeer, server_msg, nread,
    upCloses, upCloseFailed>>

inVars == <<data, text, voice_id, model_id>>
upVars ==
  <<upState, upOpens, upTarget, upSent, upQueue, upPeer, server_msg, nread,
    upCloses, upCloseFailed>>
upConn == <<upState, upOpens, upTarget, upSent>>
upLoop == <<upQueue, server_msg, nread>>
upCls == <<upCloses, upCloseFailed>>

\* The state once ws.accept() has returned.
Init ==
  /\ pc = "ready_send"
  /\ data = NoRequest
  /\ text = <<>>
  /\ voice_id = ""
  /\ model_id = ""
  /\ exc = "none"
  /\ frames = <<>>
  /\ closeCode = NOT_CLOSED
  /\ clientGone = FALSE
  /\ upState = "none"
  /\ upOpens = 0
  /\ upTarget = <<"", "">>
  /\ upSent = <<>>
  /\ upQueue = <<>>
  /\ upPeer = "live"
  /\ server_msg = NoMsg
  /\ nread = 0
  /\ upCloses = 0
  /\ upCloseFailed = FALSE

\* --------------------------------------------------------------- exceptions
\* Mutant: every exception is handled like a disconnection.
HandlerForSilent(e) == "returned"

\* An exception raised outside the `async with` block: WebSocketDisconnect is
\* logged and the handler returns; any other goes to the catch-all handler.
HandlerFor(e) == IF e = "WebSocketDisconnect" THEN "returned" ELSE "exc_send"

Raise(e) == exc' = e /\ pc' = HandlerFor(e)

\* An exception raised inside the `async with` block first runs the block's
\* exit, which closes the upstream connection.
RaiseInWith(e) == exc' = e /\ pc' = "aexit"

\* await ws.send_text / ws.send_bytes outside the block: the frame is sent,
\* or WebSocketDisconnect is raised when the client is gone (an inbound
\* operation on a connection the client has left raises WebSocketDisconnect,
\* for sends and closes as for receives).
WsSend(f, next) ==
  IF clientGone
    THEN Raise("WebSocketDisconnect") /\ UNCHANGED frames
    ELSE frames' = Append(frames, f) /\ pc' = next /\ UNCHANGED exc

\* The same inside the block.
WsSendInWith(f, next) ==
  IF clientGone
    THEN RaiseInWith("WebSocketDisconnect") /\ UNCHANGED frames
    ELSE frames' = Append(frames, f) /\ pc' = next /\ UNCHANGED exc

\* await ws.send_bytes(b) inside `try: ... except Exception` around the
\* decoding: what the send raises when the client is gone is caught and
\* logged there, and the handler goes on.
WsSendGuarded(f, next) ==
  /\ frames' = IF clientGone THEN frames ELSE Append(frames, f)
  /\ pc' = next
  /\ UNCHANGED exc

\* await ws.close(code=...) in the validation branches, followed by return.
WsClose(code) ==
  IF clientGone
    THEN Raise("WebSocketDisconnect") /\ UNCHANGED closeCode
    ELSE closeCode' = code /\ pc' = "returned" /\ UNCHANGED exc

\* ------------------------------------------------------ the handler's steps
\* await ws.send_text({"type": "status", "stage": "ready"})
SendReady ==
  /\ pc = "ready_send"
  /\ WsSend(Status("ready"), "receive")
  /\ UNCHANGED <<inVars, closeCode, clientGone, upVars>>

\* raw = await ws.receive_text(), then json.loads, the three assignments and
\* the two checks, up to the next await.
Receive ==
  /\ pc = "receive"
  /\ IF clientGone
       THEN Raise("WebSocketDisconnect") /\ UNCHANGED inVars
       ELSE \E r \in Requests :
              /\ data' = r
              /\ IF Validate(r) = "raise"
                   THEN /\ Raise("AttributeError")
                        /\ UNCHANGED <<text, voice_id, model_id>>
                   ELSE /\ pc' = Validate(r)
                        /\ exc' = exc
                        /\ IF r.json = "obj"
                             THEN /\ text' = Strip(TextOrEmpty(r))
                                  /\ voice_id' = ResolveVoice(r)
                                  /\ model_id' = ResolveModel(r)
                             ELSE UNCHANGED <<text, voice_id, model_id>>
  /\ UNCHANGED <<frames, closeCode, clientGone, upVars>>

\* json.loads(raw) raised
ErrJsonSend ==
  /\ pc = "err_json_send"
  /\ WsSend(Error("Invalid JSON"), "err_json_close")
  /\ UNCHANGED <<inVars, closeCode, clientGone, upVars>>

ErrJsonClose ==
  /\ pc = "err_json_close"
  /\ WsClose(CLOSE_UNSUPPORTED)
  /\ UNCHANGED <<inVars, frames, clientGone, upVars>>

\* if not text
ErrEmptySend ==
  /\ pc = "err_empty_send"
  /\ WsSend(Error("Tom text"), "err_empty_close")
  /\ UNCHANGED <<inVars, closeCode, clientGone, upVars>>

ErrEmptyClose ==
  /\ pc = "err_empty_close"
  /\ WsClose(CLOSE_UNSUPPORTED)
  /\ UNCHANGED <<inVars, frames, clientGone, upVars>>

\* if len(text) > settings.MAX_TEXT_CHARS
ErrLongSend ==
  /\ pc = "err_long_send"
  /\ WsSend(Error("Max tecken"), "err_long_close")
  /\ UNCHANGED <<inVars, closeCode, clientGone, upVars>>

ErrLongClose ==
  /\ pc = "err_long_close"
  /\ WsClose(CLOSE_TOO_BIG)
  /\ UNCHANGED <<inVars, frames, clientGone, upVars>>

\* status "connecting-elevenlabs" with the resolved voice_id
SendConnecting ==
  /\ pc = "connecting_send"
  /\ WsSend(Connecting(voice_id), "connect")
  /\ UNCHANGED <<inVars, closeCode, clientGone, upVars>>

\* async with ws_connect(url, ..., open_timeout=30) as eleven: the handshake
\* succeeds, or it is refused or times out and the exception propagates.
Connect ==
  /\ pc = "connect"
  /\ \/ /\ upState' = "open"
        /\ upOpens' = upOpens + 1
        /\ upTarget' = <<voice_id, model_id>>
        /\ pc' = "init_send"
        /\ UNCHANGED exc
     \/ /\ Raise("ConnectError")
        /\ UNCHANGED <<upState, upOpens, upTarget>>
  /\ UNCHANGED <<inVars, frames, closeCode, clientGone, upSent, upLoop, upPeer,
                 upCls>>

\* await eleven.send(m): ConnectionClosed once the provider has closed.
UpSend(m, next) ==
  IF upPeer = "live"
    THEN upSent' = Append(upSent, m) /\ pc' = next /\ UNCHANGED exc
    ELSE RaiseInWith("ConnectionClosed") /\ UNCHANGED upSent

InitMsg == [kind |-> "init", text |-> <<" ">>]
TextMsg(t) == [kind |-> "text", text |-> t]
FlushMsg == [kind |-> "flush", text |-> <<>>]

SendInit ==
  /\ pc = "init_send"
  /\ UpSend(InitMsg, "text_send")
  /\ UNCHANGED <<inVars, frames, closeCode, clientGone, upState, upOpens,
                 upTarget, upLoop, upPeer, upCls>>

SendText ==
  /\ pc = "text_send"
  /\ UpSend(TextMsg(text), "flush_send")
  /\ UNCHANGED <<inVars, frames, closeCode, clientGone, upState, upOpens,
                 upTarget, upLoop, upPeer, upCls>>

\* Mutant: the flush message is not sent.
SendFlushSkipped ==
  /\ pc = "flush_send"
  /\ pc' = "streaming_send"
  /\ UNCHANGED <<inVars, exc, frames, closeCode, clientGone, upVars>>

\* await eleven.send(<flush message>)
SendFlush ==
  /\ pc = "flush_send"
  /\ UpSend(FlushMsg, "streaming_send")
  /\ UNCHANGED <<inVars, frames, closeCode, clientGone, upState, upOpens,
                 upTarget, upLoop, upPeer, upCls>>

\* Mutant: reading starts without the "streaming" status.
SendStreamingSkipped ==
  /\ pc = "streaming_send"
  /\ pc' = "recv"
  /\ UNCHANGED <<inVars, exc, frames, closeCode, clientGone, upVars>>

\* await ws.send_text({"type": "status", "stage": "streaming"})
SendStreaming ==
  /\ pc = "streaming_send"
  /\ WsSendInWith(Status("streaming"), "recv")
  /\ UNCHANGED <<inVars, closeCode, clientGone, upVars>>


\* Mutant: the final signal does not end the loop.
AfterAudioNoBreak(m) == "recv"

\* After the audio of message m has been dealt with: the final-signal check.
AfterAudio(m) == IF IsFinalSignal(m) THEN "done_send" ELSE "recv"

\* Where one loop iteration goes for the upstream message m, up to its
\* next await: json.loads fails (binary is passed on, text is skipped),
\* payload.get raises on a JSON value that is no object, a provider error is
\* reported, audio is forwarded, and the final signal ends the loop.
Dispatch(m) ==
  IF m.kind = "text" THEN "recv"
  ELSE IF m.kind = "bytes" THEN "raw_send"
  ELSE IF m.kind = "nonobj" THEN "raise"
  ELSE IF IsProviderError(m) THEN "provider_error_send"
  ELSE IF HasAudio(m) THEN "audio_send"
  ELSE AfterAudio(m)

\* Mutant: the newest unread message is handed out first.
NextMsgNewest(q) == q[Len(q)]

\* The message `async for` hands to the loop body: the oldest unread one.
NextMsg(q) == Head(q)

\* Mutant: a normal close of the upstream connection leaves the block
\* without the "done" status.
RecvCloseSkipsDone ==
  /\ pc = "recv"
  /\ \/ /\ upQueue # <<>>
        /\ server_msg' = NextMsg(upQueue)
        /\ upQueue' = Tail(upQueue)
        /\ nread' = nread + 1
        /\ IF Dispatch(NextMsg(upQueue)) = "raise"
             THEN RaiseInWith("AttributeError")
             ELSE pc' = Dispatch(NextMsg(upQueue)) /\ UNCHANGED exc
     \/ /\ upQueue = <<>>
        /\ upPeer = "closedOK"
        /\ pc' = "aexit"
        /\ UNCHANGED <<exc, upLoop>>
     \/ /\ upQueue = <<>>
        /\ upPeer = "closedErr"
        /\ RaiseInWith("ConnectionClosedError")
        /\ UNCHANGED upLoop
  /\ UNCHANGED <<inVars, frames, closeCode, clientGone, upConn, upPeer, upCls>>

\* async for server_msg in eleven: the next message is read and dispatched;
\* the iteration ends when the provider has closed normally and nothing is
\* left, and raises ConnectionClosedError when it closed abnormally.
Recv ==
  /\ pc = "recv"
  /\ \/ /\ upQueue # <<>>
        /\ server_msg' = NextMsg(upQueue)
        /\ upQueue' = Tail(upQueue)
        /\ nread' = nread + 1
        /\ IF Dispatch(NextMsg(upQueue)) = "raise"
             THEN RaiseInWith("AttributeError")
             ELSE pc' = Dispatch(NextMsg(upQueue)) /\ UNCHANGED exc
     \/ /\ upQueue = <<>>
        /\ upPeer = "closedOK"
        /\ pc' = "done_send"
        /\ UNCHANGED <<exc, upLoop>>
     \/ /\ upQueue = <<>>
        /\ upPeer = "closedErr"
        /\ RaiseInWith("ConnectionClosedError")
        /\ UNCHANGED upLoop
  /\ UNCHANGED <<inVars, frames, closeCode, clientGone, upConn, upPeer, upCls>>

\* await ws.send_bytes(server_msg): binary data json.loads rejected
SendRaw ==
  /\ pc = "raw_send"
  /\ WsSendInWith(Bytes(server_msg.seq), "recv")
  /\ UNCHANGED <<inVars, closeCode, clientGone, upVars>>

\* await ws.send_bytes(b) within the decoding's try block, then the
\* final-signal check
SendAudio ==
  /\ pc = "audio_send"
  /\ WsSendGuarded(Bytes(B64Decode(server_msg).bytes), AfterAudio(server_msg))
  /\ UNCHANGED <<inVars, closeCode, clientGone, upVars>>

\* Mutant: the loop goes on after a provider error.
SendProviderErrorNoBreak ==
  /\ pc = "provider_error_send"
  /\ WsSendInWith(Error(ErrMsg(server_msg)), "recv")
  /\ UNCHANGED <<inVars, closeCode, clientGone, upVars>>

\* the error frame with the provider's message, then break
SendProviderError ==
  /\ pc = "provider_error_send"
  /\ WsSendInWith(Error(ErrMsg(server_msg)), "done_send")
  /\ UNCHANGED <<inVars, closeCode, clientGone, upVars>>

\* Mutant: the final status frame is not sent.
SendDoneSkipped ==
  /\ pc = "done_send"
  /\ pc' = "aexit"
  /\ UNCHANGED <<inVars, exc, frames, closeCode, clientGone, upVars>>

\* status "done", the last statement of the `async with` block
SendDone ==
  /\ pc = "done_send"
  /\ WsSendInWith(Status("done"), "aexit")
  /\ UNCHANGED <<inVars, closeCode, clientGone, upVars>>

\* Whether the closing handshake of the upstream connection can fail: it can
\* while the provider's end is still up (no answer in time, or the connection
\* breaks); a connection the provider has closed needs no handshake.
CloseOutcomes(peer) == IF peer = "live" THEN {FALSE, TRUE} ELSE {FALSE}

\* Mutant: the upstream connection is not closed when the block is left.
AExitNoClose ==
  /\ pc = "aexit"
  /\ pc' = IF exc = "none" THEN "returned" ELSE HandlerFor(exc)
  /\ UNCHANGED <<inVars, exc, frames, closeCode, clientGone, upVars>>

\* Mutant: a closing handshake that fails raises into the handler.
AExitCloseRaises ==
  /\ pc = "aexit"
  /\ upState' = "closed"
  /\ upCloses' = upCloses + 1
  /\ \E failed \in CloseOutcomes(upPeer) :
       /\ upCloseFailed' = failed
       /\ IF failed
            THEN exc' = "CloseError" /\ pc' = "exc_send"
            ELSE /\ pc' = IF exc = "none" THEN "returned" ELSE HandlerFor(exc)
                 /\ UNCHANGED exc
  /\ UNCHANGED <<inVars, frames, closeCode, clientGone, upOpens, upTarget,
                 upSent, upLoop, upPeer>>

\* The exit of `async with ws_connect(...) as eleven`: the upstream
\* connection is closed, once; whether or not the closing handshake
\* completes, the exit raises nothing of its own: the handler returns or the
\* pending exception reaches its except clause.
AExit ==
  /\ pc = "aexit"
  /\ upState' = "closed"
  /\ upCloses' = upCloses + 1
  /\ upCloseFailed' \in CloseOutcomes(upPeer)
  /\ pc' = IF exc = "none" THEN "returned" ELSE HandlerFor(exc)
  /\ UNCHANGED <<inVars, exc, frames, closeCode, clientGone, upOpens, upTarget,
                 upSent, upLoop, upPeer>>

\* Mutant: the catch-all handler closes without reporting the error.
ExcSendNothing ==
  /\ pc = "exc_send"
  /\ pc' = "exc_close"
  /\ UNCHANGED <<inVars, exc, frames, closeCode, clientGone, upVars>>

\* except Exception: try: await ws.send_text(error frame) except: pass
ExcSend ==
  /\ pc = "exc_send"
  /\ frames' = IF clientGone THEN frames ELSE Append(frames, Error(exc))
  /\ pc' = "exc_close"
  /\ UNCHANGED <<inVars, exc, closeCode, clientGone, upVars>>

\* Mutant: the catch-all handler closes with the default code.
ExcCloseDefaultCode ==
  /\ pc = "exc_close"
  /\ closeCode' = IF clientGone THEN closeCode ELSE CLOSE_NORMAL
  /\ pc' = "returned"
  /\ UNCHANGED <<inVars, exc, frames, clientGone, upVars>>

\* try: await ws.close(code=1011) except: pass
ExcClose ==
  /\ pc = "exc_close"
  /\ closeCode' = IF clientGone THEN closeCode ELSE CLOSE_INTERNAL
  /\ pc' = "returned"
  /\ UNCHANGED <<inVars, exc, frames, clientGone, upVars>>

\* ------------------------------------------------------------- environment
\* The handler has returned without closing the inbound connection: the
\* server closes it normally.
ServerClose ==
  /\ pc = "returned"
  /\ closeCode = NOT_CLOSED
  /\ ~clientGone
  /\ closeCode' = CLOSE_NORMAL
  /\ UNCHANGED <<pc, inVars, exc, frames, clientGone, upVars>>

\* The client goes away; the handler notices at its next inbound operation.
ClientDisconnect ==
  /\ pc # "returned"
  /\ ~clientGone
  /\ clientGone' = TRUE
  /\ UNCHANGED <<pc, inVars, exc, frames, closeCode, upVars>>

\* The provider sends one more message.
ProviderSend ==
  /\ upState = "open"
  /\ upPeer = "live"
  /\ nread + Len(upQueue) < MaxUpMsgs
  /\ \E m \in UpMsgs :
       upQueue' = Append(upQueue, [m EXCEPT !.seq = nread + Len(upQueue) + 1])
  /\ UNCHANGED <<pc, inVars, exc, frames, closeCode, clientGone, upConn, upPeer,
                 server_msg, nread, upCls>>

\* The provider closes the upstream connection normally.
ProviderCloseOK ==
  /\ upState = "open"
  /\ upPeer = "live"
  /\ upPeer' = "closedOK"
  /\ UNCHANGED <<pc, inVars, exc, frames, closeCode, clientGone, upConn, upLoop,
                 upCls>>

\* The upstream connection breaks.
ProviderCloseErr ==
  /\ upState = "open"
  /\ upPeer = "live"
  /\ upPeer' = "closedErr"
  /\ UNCHANGED <<pc, inVars, exc, frames, closeCode, clientGone, upConn, upLoop,
                 upCls>>

\* ----------------------------------------------------------- specification
Handler ==
  \/ SendReady \/ Receive
  \/ ErrJsonSend \/ ErrJsonClose
  \/ ErrEmptySend \/ ErrEmptyClose
  \/ ErrLongSend \/ ErrLongClose
  \/ SendConnecting \/ Connect
  \/ SendInit \/ SendText \/ SendFlush \/ SendStreaming
  \/ Recv \/ SendRaw \/ SendAudio \/ SendProviderError \/ SendDone
  \/ AExit \/ ExcSend \/ ExcClose

Environment ==
  \/ ServerClose \/ ClientDisconnect
  \/ ProviderSend \/ ProviderCloseOK \/ ProviderCloseErr

Next == Handler \/ Environment

Spec == Init /\ [][Next]_vars


\* ------------------------------------------------------------------ claims
\* What the claims say of a request, stated on the raw message.
NonBlank(s) == {i \in DOMAIN s : s[i] # " "}
SetMin(S) == CHOOSE x \in S : \A y \in S : x <= y
SetMax(S) == CHOOSE x \in S : \A y \in S : x >= y
\* Length of s without its leading and trailing blanks.
TrimLen(s) == IF NonBlank(s) = {} THEN 0 ELSE SetMax(NonBlank(s)) - SetMin(NonBlank(s)) + 1

\* The text is a string that is empty after trimming, or is absent.
EmptyReq(r) ==
  /\ r.json = "obj"
  /\ \/ r.t = "absent"
     \/ r.t = "str" /\ TrimLen(r.s) = 0
\* The trimmed text is longer than the configured maximum.
LongReq(r) == r.json = "obj" /\ r.t = "str" /\ TrimLen(r.s) > MAX_TEXT_CHARS
\* The text is non-empty after trimming and within the maximum.
ValidReq(r) == r.json = "obj" /\ r.t = "str" /\ TrimLen(r.s) \in 1..MAX_TEXT_CHARS

ErrorFrames == {i \in DOMAIN frames : frames[i].type = "error"}
BinaryFrames == {i \in DOMAIN frames : frames[i].type = "bytes"}
Sent(f) == \E i \in DOMAIN frames : frames[i] = f
\* No upstream connection was ever opened and nothing was sent upstream.
NoUpstream == upState = "none" /\ upOpens = 0 /\ upSent = <<>>

\* C1: a request whose text is empty after trimming (whitespace-only or
\* absent included) never opens an upstream connection and sends nothing
\* upstream; at most one error frame is sent, the inbound connection is closed
\* by the handler with code 1003 only, and only after the frames "ready" and
\* the error frame; a session that ends with the client still connected has
\* sent exactly these two frames and closed with 1003.
C1_EmptyRejected ==
  EmptyReq(data) =>
    /\ NoUpstream
    /\ Cardinality(ErrorFrames) <= 1
    /\ closeCode \in {NOT_CLOSED, CLOSE_UNSUPPORTED}
    /\ (closeCode # NOT_CLOSED \/ (pc = "returned" /\ ~clientGone)) =>
         /\ frames = <<Status("ready"), Error("Tom text")>>
         /\ closeCode = CLOSE_UNSUPPORTED

\* A whitespace-only text was rejected and the connection closed with 1003.
C1_Witness ==
  /\ EmptyReq(data) /\ data.t = "str" /\ data.s # <<>>
  /\ pc = "returned" /\ closeCode = CLOSE_UNSUPPORTED
  /\ frames = <<Status("ready"), Error("Tom text")>>

\* C2: a request whose trimmed text is longer than the maximum never opens an
\* upstream connection and sends nothing upstream; at most one error frame is
\* sent, the inbound connection is closed by the handler with code 1009 only,
\* and only after the frames "ready" and the error frame; a session that ends
\* with the client still connected has sent exactly these two frames and
\* closed with 1009.
C2_TooLongRejected ==
  LongReq(data) =>
    /\ NoUpstream
    /\ Cardinality(ErrorFrames) <= 1
    /\ closeCode \in {NOT_CLOSED, CLOSE_TOO_BIG}
    /\ (closeCode # NOT_CLOSED \/ (pc = "returned" /\ ~clientGone)) =>
         /\ frames = <<Status("ready"), Error("Max tecken")>>
         /\ closeCode = CLOSE_TOO_BIG

\* An over-long text was rejected and the connection closed with 1009.
C2_Witness ==
  /\ LongReq(data)
  /\ pc = "returned" /\ closeCode = CLOSE_TOO_BIG
  /\ frames = <<Status("ready"), Error("Max tecken")>>


\* The identifiers the request asks for, the configured default for each
\* one it does not give.
ExpectedVoice(r) == IF r.voice_id = "" THEN DEFAULT_VOICE_ID ELSE r.voice_id
ExpectedModel(r) == IF r.model_id = "" THEN DEFAULT_MODEL_ID ELSE r.model_id

\* C3 as stated: every session with a valid request (and a client that stays
\* connected) has sent the "streaming" status and opened exactly one upstream
\* connection by the time the handler returns.
C3_Original ==
  (ValidReq(data) /\ pc = "returned" /\ ~clientGone) =>
    (Sent(Status("streaming")) /\ upOpens = 1)

\* C3, amended: for a valid request at most one upstream connection is
\* opened, and it goes to the voice and model of the request (the default for
\* each one absent); "streaming" is sent only with that connection open; and
\* a session that returns without having sent "streaming" failed to open the
\* upstream connection, failed to send a handshake message, or lost its client.
C3_ValidReachesStreaming ==
  ValidReq(data) =>
    /\ upOpens <= 1
    /\ upOpens = 1 => upTarget = <<ExpectedVoice(data), ExpectedModel(data)>>
    /\ Sent(Status("streaming")) => upOpens = 1
    /\ pc \in {"recv", "raw_send", "audio_send", "provider_error_send", "done_send"}
         => Sent(Status("streaming"))
    /\ (pc = "returned" /\ ~Sent(Status("streaming")))
         => exc \in {"ConnectError", "ConnectionClosed", "WebSocketDisconnect"}

\* A valid request naming a voice but no model reached Streaming on a
\* connection to that voice and the default model.
C3_Witness ==
  /\ ValidReq(data) /\ data.voice_id = "v1" /\ data.model_id = ""
  /\ Sent(Status("streaming"))
  /\ upOpens = 1 /\ upTarget = <<"v1", DEFAULT_MODEL_ID>>

\* C4: the binary frames sent to the client carry the payloads of upstream
\* messages already read, in strictly increasing upstream order: none is out
\* of order and none is duplicated.
C4_OrderPreserved ==
  /\ \A i \in BinaryFrames : frames[i].data \in 1..nread
  /\ \A i, j \in BinaryFrames : i < j => frames[i].data < frames[j].data

\* Two upstream messages were forwarded as binary frames.
C4_Witness == Cardinality(BinaryFrames) >= 2

\* A session with a valid request, no exception, no error frame and a client
\* that stays connected.
Happy == ValidReq(data) /\ exc = "none" /\ ErrorFrames = {} /\ ~clientGone

CarriesFinal(m) == m.kind = "obj" /\ (m.isFinal \/ m.event = "finalOutput")

\* C6: once the message of the current iteration carries the final signal,
\* the loop is not waiting for another message, no further message is read,
\* and (after that message's own audio) no binary frame follows: the next
\* frame, if the message is no provider error, is the "done" status.
C6_FinalStopsReading ==
  /\ [](CarriesFinal(server_msg) => pc \notin {"recv", "raw_send"})
  /\ [][CarriesFinal(server_msg) =>
          /\ nread' = nread
          /\ server_msg' = server_msg
          /\ upQueue' = upQueue \/ Len(upQueue') > Len(upQueue)
          /\ (pc # "audio_send" /\ frames' # frames) =>
               /\ frames'[Len(frames')].type # "bytes"
               /\ pc # "provider_error_send" =>
                    frames' = Append(frames, Status("done"))]_vars

\* The session finished after a final signal while another upstream message
\* was still waiting unread.
C6_Witness ==
  /\ CarriesFinal(server_msg) /\ ~IsProviderError(server_msg)
  /\ upQueue # <<>>
  /\ pc = "returned" /\ Sent(Status("done"))

\* C7: when the upstream connection cannot be opened or a handshake message
\* cannot be sent, "ready" and "connecting" have been sent, "streaming" and
\* binary frames never are, at most one error frame is sent, and the handler
\* closes the inbound connection with code 1011 only; a session that ends
\* with the client still connected has sent exactly "ready", "connecting" and
\* the error frame, and closed with 1011.
C7_UpstreamUnavailable ==
  exc \in {"ConnectError", "ConnectionClosed"} =>
    /\ ~Sent(Status("streaming"))
    /\ BinaryFrames = {}
    /\ Len(frames) >= 2
    /\ frames[1] = Status("ready")
    /\ frames[2] = Connecting(ExpectedVoice(data))
    /\ Cardinality(ErrorFrames) <= 1
    /\ closeCode \in {NOT_CLOSED, CLOSE_INTERNAL}
    /\ (closeCode # NOT_CLOSED \/ (pc = "returned" /\ ~clientGone)) =>
         /\ Len(frames) = 3
         /\ frames[3].type = "error"
         /\ closeCode = CLOSE_INTERNAL

\* A handshake message could not be sent and the session ended with 1011.
C7_Witness ==
  /\ exc = "ConnectionClosed" /\ upSent # <<>>
  /\ pc = "returned" /\ closeCode = CLOSE_INTERNAL
  /\ Len(frames) = 3 /\ frames[3].type = "error"

\* C8: with the client still connected, the inbound connection is closed only
\* after an error frame or the "done" status has been sent.
C8_NeverSilentClose ==
  (~clientGone /\ closeCode # NOT_CLOSED) =>
    (ErrorFrames # {} \/ Sent(Status("done")))

\* An unexpected failure during streaming ended with an error frame and 1011.
C8_Witness ==
  /\ ~clientGone /\ closeCode = CLOSE_INTERNAL
  /\ Sent(Status("streaming")) /\ ErrorFrames # {}

C10_UpstreamScoped ==
  /\ upOpens <= 1
  /\ (upState = "none") <=> (upOpens = 0)
  /\ upOpens = 1 => ValidReq(data)
  /\ upSent # <<>> => upOpens = 1
  /\ pc = "returned" => upState # "open"

\* The client disconnected during streaming and the upstream connection was
\* closed before the handler returned.
C10_Witness ==
  /\ exc = "WebSocketDisconnect" /\ Sent(Status("streaming"))
  /\ pc = "returned" /\ upState = "closed"


\* The first message is not the expected request structure: no JSON, a JSON
\* value that is no object, or an object whose text is no string.
Malformed(r) ==
  \/ r.json \in {"invalid", "nonobj"}
  \/ r.json = "obj" /\ r.t \in {"falsy", "truthy"}

\* C11 as stated: a session whose first message is malformed, and whose
\* client stays connected, ends with an error frame sent, the inbound
\* connection closed with 1003 and no upstream connection opened.
C11_Original ==
  (Malformed(data) /\ pc = "returned" /\ ~clientGone) =>
    /\ ErrorFrames # {}
    /\ closeCode = CLOSE_UNSUPPORTED
    /\ NoUpstream


\* The message is a JSON object carrying an error indicator.
CarriesError(m) == m.kind = "obj" /\ (m.event = "error" \/ m.has_error)

\* The provider's message: the message member, else the error member, else
\* the generic text.
ProviderText(m) ==
  IF m.message # "" THEN m.message
  ELSE IF m.error # "" THEN m.error
  ELSE "Okant fel fran TTS-leverantoren"

\* C12: once the message of the current iteration carries an error
\* indicator, no binary frame is sent for it (even if it carries audio), at
\* most one error frame exists, the loop reads no further message, and the
\* only frames that follow are one error frame with the provider's message
\* and then the "done" status.
C12_ProviderError ==
  /\ [](CarriesError(server_msg) =>
          /\ pc \notin {"recv", "raw_send", "audio_send"}
          /\ \A i \in BinaryFrames : frames[i].data # server_msg.seq
          /\ Cardinality(ErrorFrames) <= 1)
  /\ [][CarriesError(server_msg) =>
          /\ nread' = nread
          /\ server_msg' = server_msg
          /\ (pc = "provider_error_send" /\ pc' # pc) => pc' \in {"done_send", "aexit"}
          /\ frames' # frames =>
               \/ /\ pc = "provider_error_send"
                  /\ frames' = Append(frames, Error(ProviderText(server_msg)))
               \/ /\ pc = "done_send"
                  /\ frames' = Append(frames, Status("done"))]_vars

\* A provider error that also carried audio was reported with the text of its
\* error member, nothing was forwarded, and the session went to Done with
\* another upstream message still unread.
C12_Witness ==
  /\ CarriesError(server_msg) /\ server_msg.audio = "ok"
  /\ upQueue # <<>>
  /\ BinaryFrames = {}
  /\ Sent(Error("e")) /\ Sent(Status("done"))
  /\ pc = "returned"


\* s without its leading and trailing blanks.
Trimmed(s) ==
  IF NonBlank(s) = {} THEN <<>> ELSE SubSeq(s, SetMin(NonBlank(s)), SetMax(NonBlank(s)))

\* The three handshake messages for request r: the configuration message
\* (whose text is one blank), the trimmed request text, the flush message.
Handshake(r) ==
  << [kind |-> "init", text |-> <<" ">>],
     [kind |-> "text", text |-> Trimmed(r.s)],
     [kind |-> "flush", text |-> <<>>] >>

IsPrefix(a, b) == Len(a) <= Len(b) /\ a = SubSeq(b, 1, Len(a))

\* C13 as stated: a session that opened an upstream connection has sent
\* exactly the three handshake messages by the time it ends.
C13_Original ==
  (upOpens = 1 /\ pc = "returned") => upSent = Handshake(data)

\* C13, amended: "connecting" is sent before the open is attempted; what is
\* sent upstream is always a prefix of configuration, text, flush, and
\* nothing without an open connection; all three have been sent before
\* "streaming" is sent and before any upstream message is read; a session
\* that ends with fewer than three failed to send one of them.
C13_HandshakeOrder ==
  /\ (pc = "connect" \/ upOpens >= 1) =>
       (Len(frames) >= 2 /\ frames[2] = Connecting(ExpectedVoice(data)))
  /\ upOpens = 0 => upSent = <<>>
  /\ upOpens >= 1 => IsPrefix(upSent, Handshake(data))
  /\ (Sent(Status("streaming")) \/ nread > 0) => upSent = Handshake(data)
  /\ nread > 0 => Sent(Status("streaming"))
  /\ (upOpens = 1 /\ pc = "returned" /\ upSent # Handshake(data)) =>
       exc = "ConnectionClosed"

\* A padded text went upstream trimmed, between configuration and flush, and
\* an upstream message has been read.
C13_Witness ==
  /\ data.t = "str" /\ Len(data.s) > Len(Trimmed(data.s))
  /\ upSent = Handshake(data)
  /\ Sent(Status("streaming")) /\ nread > 0


\* The session has ended with the client still connected, and its reading
\* loop was ended by the closing of the upstream connection: "streaming" was
\* sent, and the last message read, if any, carried neither the final signal
\* nor a provider error and was a JSON object, text or binary data.
EndedByClose ==
  /\ pc = "returned" /\ ~clientGone
  /\ Sent(Status("streaming"))
  /\ ~CarriesFinal(server_msg) /\ ~CarriesError(server_msg)
  /\ server_msg.kind # "nonobj"

\* C14 as stated: however the upstream connection closed, the session ends
\* with the "done" status and without an error frame.
C14_Original ==
  EndedByClose => (Sent(Status("done")) /\ ErrorFrames = {})

\* C14, amended: when the upstream connection was closed normally, the
\* session ends with the "done" status as its last frame and no error frame;
\* when it was closed abnormally, the session ends through the catch-all
\* handler, with no "done" status, one error frame as its last frame and the
\* internal-error close code.
C14_CloseEndsSession ==
  /\ EndedByClose => upPeer \in {"closedOK", "closedErr"} /\ upQueue = <<>>
  /\ (EndedByClose /\ upPeer = "closedOK") =>
       /\ frames[Len(frames)] = Status("done")
       /\ ErrorFrames = {}
       /\ exc = "none"
       /\ closeCode \in {NOT_CLOSED, CLOSE_NORMAL}
  /\ (EndedByClose /\ upPeer = "closedErr") =>
       /\ ~Sent(Status("done"))
       /\ exc = "ConnectionClosedError"
       /\ Cardinality(ErrorFrames) = 1
       /\ frames[Len(frames)] = Error("ConnectionClosedError")
       /\ closeCode = CLOSE_INTERNAL

\* The upstream connection was closed normally before any audio arrived, and
\* the session ended with "done" and no binary frame.
C14_Witness ==
  /\ EndedByClose /\ upPeer = "closedOK"
  /\ BinaryFrames = {} /\ nread > 0
  /\ Sent(Status("done"))


\* The positions at which the handler's next step is a send, receive or close
\* on the inbound connection outside the catch-all handler.
InboundAwaits ==
  {"ready_send", "receive", "err_json_send", "err_json_close",
   "err_empty_send", "err_empty_close", "err_long_send", "err_long_close",
   "connecting_send", "streaming_send", "raw_send", "audio_send",
   "provider_error_send", "done_send"}

\* C15: a step the handler takes at an inbound send, receive or close while
\* the client is gone detects the disconnection and ends the session; from
\* the detection on, no frame is sent, the inbound connection is not closed
\* by the handler, the only step left is the closing of the upstream
\* connection if one is open, and the session has ended with no upstream
\* connection open.
C15_Original ==
  /\ [](exc = "WebSocketDisconnect" =>
          /\ clientGone
          /\ closeCode = NOT_CLOSED
          /\ pc \in {"aexit", "returned"}
          /\ pc = "aexit" => upState = "open"
          /\ pc = "returned" => upState \in {"none", "closed"}
          /\ upCloses = upOpens \/ pc = "aexit")
  /\ [][/\ (clientGone /\ pc \in InboundAwaits /\ pc' # pc) =>
             exc' = "WebSocketDisconnect"
        /\ exc' = "WebSocketDisconnect" =>
             /\ frames' = frames
             /\ closeCode' = closeCode
             /\ upSent' = upSent
             /\ nread' = nread]_vars

\* An exception other than the client's disconnection.
Unexpected(e) == e \notin {"none", "WebSocketDisconnect"}

\* C16 as stated: the error frame is attempted first and both connections
\* are closed after it, so the upstream connection is not yet closed while
\* the error frame has not been attempted.
C16_Original ==
  (Unexpected(exc) /\ upState = "closed") => pc \in {"exc_close", "returned"}

\* C16, amended: after an unexpected failure the upstream connection, if
\* open, is closed first; then one error frame carrying the failure's text is
\* attempted (skipped when the client is gone), then the inbound connection
\* is closed with the internal-error code; the failure is never replaced by
\* another one, no other frame is sent, and the session ends with no upstream
\* connection open.
C16_CatchAll ==
  /\ [](Unexpected(exc) =>
          /\ pc \in {"aexit", "exc_send", "exc_close", "returned"}
          /\ pc = "aexit" <=> upState = "open"
          /\ pc # "aexit" => upCloses = upOpens
          /\ closeCode \in {NOT_CLOSED, CLOSE_INTERNAL}
          /\ pc \in {"aexit", "exc_send"} =>
               (closeCode = NOT_CLOSED /\ ~Sent(Error(exc)))
          /\ pc = "exc_close" =>
               /\ closeCode = NOT_CLOSED
               /\ clientGone \/ frames[Len(frames)] = Error(exc)
          /\ (pc = "returned" /\ ~clientGone) =>
               /\ closeCode = CLOSE_INTERNAL
               /\ frames[Len(frames)] = Error(exc)
               /\ Cardinality(ErrorFrames) = 1)
  /\ [][Unexpected(exc) =>
          /\ exc' = exc
          /\ frames' # frames =>
               (pc = "exc_send" /\ frames' = Append(frames, Error(exc)))
          /\ closeCode' # closeCode => pc = "exc_close"]_vars

\* The upstream connection broke while messages were being read: it was
\* closed, the error frame sent and the inbound connection closed with 1011.
C16_Witness ==
  /\ exc = "ConnectionClosedError" /\ pc = "returned" /\ ~clientGone
  /\ upState = "closed" /\ closeCode = CLOSE_INTERNAL
  /\ Sent(Error("ConnectionClosedError"))


\* An upstream message that is none of audio, provider error or final
\* signal: text that is no JSON, a JSON value that is no object, or an object
\* with no audio member, no error and no final signal.
Unrecognized(m) ==
  \/ m.kind \in {"text", "nonobj"}
  \/ /\ m.kind = "obj"
     /\ m.audio = "absent"
     /\ ~CarriesError(m) /\ ~CarriesFinal(m)

\* C17: reading an unrecognized upstream message sends no frame, raises
\* nothing and leaves the loop waiting for the next message.
C17_Original ==
  [][(pc = "recv" /\ nread' = nread + 1 /\ Unrecognized(server_msg')) =>
       /\ pc' = "recv"
       /\ frames' = frames
       /\ exc' = exc]_vars


\* C18: reading a JSON object that is no provider error leads to the sending
\* of its audio when the audio decodes to some bytes, whether or not the
\* message carries the final signal as well; otherwise (audio that fails to
\* decode, empty or absent) no frame is sent and nothing is raised, and the
\* final signal decides whether the loop ends; every message is treated so,
\* whatever was read before it.  The step after the audio of a message with
\* the final signal sends exactly that audio as one binary frame (nothing when
\* the client is gone) and goes on to "done"; after other audio the next
\* message is read.  No binary frame ever comes from a message whose audio
\* does not decode.
C18_AudioAndFinal ==
  /\ [][(pc = "recv" /\ nread' = nread + 1 /\ server_msg'.kind = "obj"
           /\ ~CarriesError(server_msg')) =>
          IF server_msg'.audio = "ok"
            THEN pc' = "audio_send" /\ frames' = frames /\ exc' = exc
            ELSE /\ frames' = frames
                 /\ exc' = exc
                 /\ pc' = IF CarriesFinal(server_msg') THEN "done_send"
                                                      ELSE "recv"]_vars
  /\ [][(pc = "audio_send" /\ pc' # pc) =>
          /\ frames' = IF clientGone THEN frames
                       ELSE Append(frames, Bytes(server_msg.seq))
          /\ exc' = exc
          /\ pc' = IF CarriesFinal(server_msg) THEN "done_send" ELSE "recv"]_vars
  /\ [](server_msg.audio \in {"bad", "empty", "absent"} =>
          /\ pc # "audio_send"
          /\ \A i \in BinaryFrames :
               frames[i].data # server_msg.seq \/ server_msg.kind = "bytes")

\* The second message read carried audio and the final signal, after a first
\* one for which nothing was sent: its audio is the only binary frame,
\* "done" follows it, and there is no error frame.
C18_Witness ==
  /\ server_msg.audio = "ok" /\ CarriesFinal(server_msg) /\ nread = 2
  /\ Len(frames) = 5
  /\ frames[3] = Status("streaming")
  /\ frames[4] = Bytes(2)
  /\ frames[5] = Status("done")
  /\ ErrorFrames = {} /\ pc = "returned"


Positions(f) == {i \in DOMAIN frames : frames[i] = f}

\* C20: the first frame sent is "ready", and it is sent once, in every
\* session in which the first send found the client connected; "connecting"
\* (with whatever voice), "streaming" and "done" are each sent at most once;
\* every binary frame comes after "streaming" and before "done"; binary
\* frames are sent only in a session whose request passed validation and
\* whose upstream connection was opened and given the whole handshake.
C20_FrameOrder ==
  /\ frames # <<>> => frames[1] = Status("ready")
  /\ Cardinality(Positions(Status("ready"))) <= 1
  /\ (pc # "ready_send" /\ ~(exc = "WebSocketDisconnect" /\ frames = <<>>)) =>
       Cardinality(Positions(Status("ready"))) = 1
  /\ Cardinality({i \in DOMAIN frames :
                    frames[i].stage = "connecting-elevenlabs"}) <= 1
  /\ Cardinality(Positions(Status("streaming"))) <= 1
  /\ Cardinality(Positions(Status("done"))) <= 1
  /\ \A i \in BinaryFrames :
       /\ \E j \in Positions(Status("streaming")) : j < i
       /\ \A k \in Positions(Status("done")) : i < k
  /\ BinaryFrames # {} =>
       /\ ValidReq(data)
       /\ upOpens = 1
       /\ upSent = Handshake(data)
       /\ exc \notin {"ConnectError", "ConnectionClosed"}
  /\ (~ValidReq(data) \/ exc \in {"ConnectError", "ConnectionClosed"}) =>
       (BinaryFrames = {} /\ ~Sent(Status("streaming")) /\ ~Sent(Status("done")))

\* A finished session with as many binary frames as the provider may send
\* messages, all between "streaming" and "done".
C20_Witness ==
  /\ pc = "returned" /\ Cardinality(BinaryFrames) = MaxUpMsgs
  /\ frames[1] = Status("ready")
  /\ frames[3] = Status("streaming")
  /\ frames[Len(frames)] = Status("done")

====
